---------------------------- MODULE Spec2Model ----------------------------
(***************************************************************************)
(* Model of the job-search handlers of linkedin-jobs-api:                  *)
(*   "server"  - src/server.js          (remote/contract filters, job-id   *)
(*                                       dedup, optional detail fetch)     *)
(*   "part000" - src/unnamed/part_000   (library call, scoring, fuzzy      *)
(*                                       fallback, soft remote constraint) *)
(*   "part001" - src/unnamed/part_001   (identity check, keyword filter,   *)
(*                                       url dedup)                        *)
(* One request is followed from the upstream exchange to the response.     *)
(*                                                                         *)
(* JavaScript strings are sequences of atoms.  An atom is a run of         *)
(* characters that no vocabulary entry splits ("help", " ", "/", "1"), so  *)
(* that String.includes, startsWith, trim and the regular expressions of   *)
(* the source are computed on atom sequences as the source computes them   *)
(* on characters.                                                          *)
(***************************************************************************)
EXTENDS Integers, Sequences, FiniteSets, TLC

VARIABLES variant, opts, exchange, pc, rawJobs, normalized, enrichIdx,
          inFlight, pages, preConstraint, strictList, deduped, response

vars == <<variant, opts, exchange, pc, rawJobs, normalized, enrichIdx,
          inFlight, pages, preConstraint, strictList, deduped, response>>

-----------------------------------------------------------------------------
(* Bounds of the model *)

\* longest JSON array / card list of an upstream body
MaxJobs == 2
\* largest page size a request asks for
MaxLimit == 2
\* longest JSON array of a body that comes with a non-2xx status
MaxErrJobs == 1

-----------------------------------------------------------------------------
(* JavaScript values *)

Undefined == [t |-> "undefined"]
Null      == [t |-> "null"]
Str(s)    == [t |-> "str", s |-> s]
Num(n)    == [t |-> "num", n |-> n]
Arr(xs)   == [t |-> "arr", items |-> xs]
Obj(f)    == [t |-> "obj", f |-> f]
\* a markup document: its text is non-empty, `cards` are the DOM nodes the
\* card selectors can see
Markup(cards) == [t |-> "str", s |-> <<"<", "html", ">">>, cards |-> cards]

\* ToBoolean(v)
Truthy(v) ==
    CASE v.t = "undefined" -> FALSE
      [] v.t = "null"      -> FALSE
      [] v.t = "str"       -> v.s # <<>>
      [] v.t = "num"       -> v.n # 0
      [] OTHER             -> TRUE

\* raw.name for any JavaScript value raw that is not null or undefined
Get(raw, name) ==
    IF raw.t = "obj" /\ name \in DOMAIN raw.f THEN raw.f[name] ELSE Undefined

-----------------------------------------------------------------------------
(* Strings *)

SP == " "
Host == "https://www.linkedin.com"
Digits == {"0", "1", "2", "3", "4", "5", "6", "7", "8", "9"}
\* atoms that are not word characters (\b of a regular expression lies
\* between a word atom and one of these, or the end of the string)
NonWord == {SP, "/", "|", "?", "&", "=", "-", ",", ":", "<", ">", "{", "}"}

LowerAtom(a) ==
    CASE a = "Help"     -> "help"
      [] a = "Desk"     -> "desk"
      [] a = "Remote"   -> "remote"
      [] a = "Contract" -> "contract"
      [] a = "US"       -> "us"
      [] a = "Acme"     -> "acme"
      [] a = "Technician" -> "technician"
      [] a = "United"   -> "united"
      [] a = "States"   -> "states"
      [] OTHER          -> a

\* String.prototype.toLowerCase
Lower(s) == [i \in 1..Len(s) |-> LowerAtom(s[i])]

\* String.prototype.includes
Includes(s, t) ==
    \E i \in 0..(Len(s) - Len(t)) : SubSeq(s, i + 1, i + Len(t)) = t

\* String.prototype.startsWith('/')
StartsWithSlash(s) == s # <<>> /\ Head(s) = "/"

\* String.prototype.startsWith('http')
StartsWithHttp(s) == s # <<>> /\ Head(s) = Host

RECURSIVE TrimLeft(_)
TrimLeft(s) == IF s # <<>> /\ Head(s) = SP THEN TrimLeft(Tail(s)) ELSE s

RECURSIVE TrimRight(_)
TrimRight(s) ==
    IF s # <<>> /\ s[Len(s)] = SP THEN TrimRight(SubSeq(s, 1, Len(s) - 1)) ELSE s

\* String.prototype.trim
Trim(s) == TrimRight(TrimLeft(s))

\* s.replace(/\s+/g, ' ')
RECURSIVE CollapseWs(_)
CollapseWs(s) ==
    IF Len(s) < 2 THEN s
    ELSE IF s[1] = SP /\ s[2] = SP THEN CollapseWs(Tail(s))
    ELSE <<s[1]>> \o CollapseWs(Tail(s))

\* arr.join(' ')
RECURSIVE Join(_)
Join(arr) ==
    IF arr = <<>> THEN <<>>
    ELSE IF Len(arr) = 1 THEN arr[1]
    ELSE arr[1] \o <<SP>> \o Join(Tail(arr))

\* arr.filter(Boolean) for an array of strings
RECURSIVE NonEmpty(_)
NonEmpty(arr) ==
    IF arr = <<>> THEN <<>>
    ELSE IF arr[1] = <<>> THEN NonEmpty(Tail(arr))
    ELSE <<arr[1]>> \o NonEmpty(Tail(arr))

joinText(arr) == Lower(Trim(CollapseWs(Join(NonEmpty(arr)))))

containsAny(hay, tokens) ==
    IF hay = <<>> THEN FALSE
    ELSE \E t \in tokens : Includes(Lower(hay), t)

\* the longest run of digits of s that starts at position i
RECURSIVE DigitRun(_, _)
DigitRun(s, i) ==
    IF i <= Len(s) /\ s[i] \in Digits THEN <<s[i]>> \o DigitRun(s, i + 1) ELSE <<>>

\* positions right after an occurrence of `pre` that a digit follows
DigitStarts(s, pre) ==
    {i \in 1..Len(s) :
        /\ i > Len(pre)
        /\ SubSeq(s, i - Len(pre), i - 1) = pre
        /\ s[i] \in Digits}

Min(S) == CHOOSE x \in S : \A y \in S : x <= y

ViewPath == <<"/", "jobs", "/", "view", "/">>

\* positions right after [?&]currentJobId= that a digit follows
QueryIdStarts(s) ==
    DigitStarts(s, <<"?", "currentJobId", "=">>)
        \cup DigitStarts(s, <<"&", "currentJobId", "=">>)

extractJobId(url) ==
    IF url = <<>> THEN <<>>
    ELSE IF DigitStarts(url, ViewPath) # {}
         THEN DigitRun(url, Min(DigitStarts(url, ViewPath)))
    ELSE IF QueryIdStarts(url) # {}
         THEN DigitRun(url, Min(QueryIdStarts(url)))
    ELSE <<>>

-----------------------------------------------------------------------------
(* Vocabularies *)

\* src/server.js TITLE_KEYWORDS
TITLE_KEYWORDS ==
    { <<"service", SP, "desk">>, <<"help", SP, "desk">>, <<"help", "desk">>,
      <<"desk", "top", SP, "support">>, <<"tech", "nical", SP, "support">>,
      <<"support", SP, "specialist">>,
      <<"service", SP, "desk", SP, "tech", "nician">>,
      <<"help", SP, "desk", SP, "tech", "nician">>,
      <<"msp">>, <<"managed", SP, "service">>, <<"it", SP, "support">>,
      <<"it", SP, "tech", "nician">>, <<"field", SP, "tech", "nician">>,
      <<"support", SP, "engineer">>, <<"support", SP, "analyst">>,
      <<"desk", SP, "engineer">>, <<"support", SP, "tech">> }

REMOTE_TOKENS ==
    { <<"remote">>, <<"work", SP, "from", SP, "home">>, <<"wfh">>,
      <<"distributed">>, <<"telecommute">>, <<"work", "-", "from", "-", "home">> }

CONTRACT_TOKENS ==
    { <<"contract">>, <<"contract", "or">>, <<"temp">>, <<"temp", "orary">>,
      <<"freelance">>, <<"fixed", "-", "term">>, <<"fixed", SP, "term">>,
      <<"6", SP, "month">>, <<"1", "2", SP, "month">>, <<"6", "-", "month">>,
      <<"1", "2", "-", "month">>, <<"contract", SP, "role">>,
      <<"on", SP, "contract">> }

\* src/unnamed/part_001 TITLE_KEYWORDS without its one regular expression
TITLE_KEYWORDS_001 ==
    { <<"service", SP, "desk">>, <<"help", SP, "desk">>, <<"help", "desk">>,
      <<"desk", "top", SP, "support">>, <<"tech", "nical", SP, "support">>,
      <<"support", SP, "specialist">>,
      <<"service", SP, "desk", SP, "tech", "nician">>,
      <<"help", SP, "desk", SP, "tech", "nician">>,
      <<"msp">>, <<"managed", SP, "service">>, <<"it", SP, "support">>,
      <<"it", SP, "tech", "nician">>, <<"field", SP, "tech", "nician">>,
      <<"support", SP, "engineer">>, <<"support", SP, "analyst">> }

\* /\btech\b/i : the word "tech" with no word character on either side
WordTech(hay) ==
    \E i \in 1..Len(hay) :
        /\ hay[i] = "tech"
        /\ (i = 1 \/ hay[i - 1] \in NonWord)
        /\ (i = Len(hay) \/ hay[i + 1] \in NonWord)

\* src/unnamed/part_000 vocabularies
mustKeywordsBase ==
    << <<"service", SP, "desk">>, <<"help", SP, "desk">>, <<"help", "desk">>,
       <<"service", "-", "desk">>, <<"help", "-", "desk">> >>

broaderKeywords ==
    << <<"desk", "top", SP, "support">>, <<"it", SP, "support">>,
       <<"tech", "nician">>, <<"msp">>, <<"support", SP, "engineer">>,
       <<"field", SP, "tech">>, <<"1", "st", SP, "line">>,
       <<"1", "st", "-", "line">>, <<"level", SP, "1">>, <<"level", SP, "2">> >>

remoteIndicators ==
    << <<"remote">>, <<"work", SP, "from", SP, "home">>, <<"wfh">>,
       <<"work", "-", "from", "-", "home">>, <<"hybrid">> >>

-----------------------------------------------------------------------------
(* Record Normalizer *)

\* raw.a || raw.b || ... || dflt
RECURSIVE FirstTruthy(_, _, _)
FirstTruthy(raw, names, dflt) ==
    IF names = <<>> THEN Str(dflt)
    ELSE IF Truthy(Get(raw, names[1])) THEN Get(raw, names[1])
    ELSE FirstTruthy(raw, Tail(names), dflt)

PositionAliases == <<"position", "title", "jobTitle">>
CompanyAliases  == <<"company", "companyName", "subtitle">>
LocationAliases == <<"location", "region", "jobLocation">>
DateAliases     == <<"date", "postedAt", "posted">>
SalaryAliases   == <<"salary", "compensation">>
UrlAliases      == <<"jobUrl", "applyUrl", "url">>
LogoAliases     == <<"companyLogo", "logo">>
DescAliases     == <<"description", "snippet">>

NotSpecified == <<"Not", SP, "specified">>

AliasTable ==
    << <<PositionAliases, <<>>>>, <<CompanyAliases, <<>>>>,
       <<LocationAliases, <<>>>>, <<DateAliases, <<>>>>,
       <<SalaryAliases, NotSpecified>>, <<UrlAliases, <<>>>>,
       <<LogoAliases, <<>>>>, <<DescAliases, <<>>>> >>

\* normalizeJob raises a TypeError: a property read of null or undefined, or
\* .trim() called on a value that is not a string
normalizeThrows(raw) ==
    \/ raw.t \in {"null", "undefined"}
    \/ \E i \in 1..Len(AliasTable) :
          FirstTruthy(raw, AliasTable[i][1], AliasTable[i][2]).t # "str"

PickTrim(raw, names, dflt) == Trim(FirstTruthy(raw, names, dflt).s)

normalizeJob(raw) ==
    [ position    |-> PickTrim(raw, PositionAliases, <<>>),
      company     |-> PickTrim(raw, CompanyAliases, <<>>),
      location    |-> PickTrim(raw, LocationAliases, <<>>),
      date        |-> PickTrim(raw, DateAliases, <<>>),
      salary      |-> PickTrim(raw, SalaryAliases, NotSpecified),
      jobUrl      |-> PickTrim(raw, UrlAliases, <<>>),
      companyLogo |-> PickTrim(raw, LogoAliases, <<>>),
      description |-> PickTrim(raw, DescAliases, <<>>) ]

\* rawJobs.map(normalizeJob)
Normalizer(raw) == [i \in 1..Len(raw) |-> normalizeJob(raw[i])]

-----------------------------------------------------------------------------
(* HTML Extraction Engine *)
(* A document is the sequence of its candidate nodes.  A node is           *)
(*   [cls, title, anchorText, subtitle, loc, href]                         *)
(* where cls is the index (1..5) of the card selector the node matches in  *)
(* the cardSelectors list of src/server.js, or 0 for a bare li/div around  *)
(* a link.                                                                 *)

NumCardSelectors == 5
NumCardSelectors001 == 4

\* the nodes the selector cascade adopts: those of the first card selector,
\* of the first n, that matches anything; else the containers of job links
CardNodes(cards, n) ==
    LET present == {c \in 1..n : \E i \in 1..Len(cards) : cards[i].cls = c}
        keep(nd) == IF present # {}
                    THEN nd.cls = Min(present)
                    ELSE /\ nd.cls \notin 1..n
                         /\ Includes(nd.href, <<"/", "jobs", "/", "view">>)
    IN  SelectSeq(cards, keep)

CardToItem(nd) ==
    Obj([ position    |-> Str(IF Trim(nd.title) # <<>> THEN Trim(nd.title)
                              ELSE Trim(nd.anchorText)),
          company     |-> Str(Trim(nd.subtitle)),
          location    |-> Str(Trim(nd.loc)),
          jobUrl      |-> Str(IF StartsWithSlash(nd.href)
                              THEN <<Host>> \o nd.href ELSE nd.href),
          description |-> Str(<<>>) ])

\* src/server.js parseLinkedInHtml: one item per adopted node
parseLinkedInHtml(html) ==
    LET nodes == CardNodes(html.cards, NumCardSelectors)
    IN  [i \in 1..Len(nodes) |-> CardToItem(nodes[i])]

\* src/unnamed/part_001 parseLinkedInHtml: the href is taken when it holds
\* "/jobs" or starts with "http", and is left relative; a node with no
\* position, company or url is skipped
CardToItem001(nd) ==
    Obj([ position    |-> Str(IF Trim(nd.title) # <<>> THEN Trim(nd.title)
                              ELSE Trim(nd.anchorText)),
          company     |-> Str(Trim(nd.subtitle)),
          location    |-> Str(Trim(nd.loc)),
          jobUrl      |-> Str(IF \/ Includes(nd.href, <<"/", "jobs">>)
                                 \/ StartsWithHttp(nd.href)
                              THEN nd.href ELSE <<>>),
          description |-> Str(<<>>) ])

parseLinkedInHtml001(html) ==
    LET nodes == CardNodes(html.cards, NumCardSelectors001)
        items == [i \in 1..Len(nodes) |-> CardToItem001(nodes[i])]
        some(it) == \/ it.f.position.s # <<>>
                    \/ it.f.company.s # <<>>
                    \/ it.f.jobUrl.s # <<>>
    IN  SelectSeq(items, some)

\* the cards of a string: none for anything that is not a markup document
CardsOf(body) == IF "cards" \in DOMAIN body THEN body.cards ELSE <<>>

-----------------------------------------------------------------------------
(* Raw-Shape Resolver *)

IsArray(v) == v.t = "arr"

\* JSON.stringify(body) of a mapping: it opens with a brace
Stringify(body) == <<"{", "json", "}">>

StartsWithLt(s) == Trim(s) # <<>> /\ Head(Trim(s)) = "<"

\* the cascade with `data` tried before `jobs`
ResolveRaw_DataFirst(body) ==
    IF IsArray(body) THEN body.items
    ELSE IF Truthy(body) /\ body.t = "obj" THEN
        IF IsArray(Get(body, "elements")) THEN Get(body, "elements").items
        ELSE IF IsArray(Get(body, "data")) THEN Get(body, "data").items
        ELSE IF IsArray(Get(body, "jobs")) THEN Get(body, "jobs").items
        ELSE <<>>
    ELSE IF body.t = "str" THEN parseLinkedInHtml([cards |-> CardsOf(body)])
    ELSE <<>>

\* the cascade with an unrecognized body wrapped as a one-record sequence
ResolveRaw_WrapUnknown(body) ==
    IF IsArray(body) THEN body.items
    ELSE IF Truthy(body) /\ body.t = "obj" THEN
        IF IsArray(Get(body, "elements")) THEN Get(body, "elements").items
        ELSE IF IsArray(Get(body, "jobs")) THEN Get(body, "jobs").items
        ELSE IF IsArray(Get(body, "data")) THEN Get(body, "data").items
        ELSE <<body>>
    ELSE IF body.t = "str" THEN parseLinkedInHtml([cards |-> CardsOf(body)])
    ELSE IF Truthy(body) THEN <<body>> ELSE <<>>

\* src/server.js: the `try` block of "Parse response"
ResolveRaw(body) ==
    IF IsArray(body) THEN body.items
    ELSE IF Truthy(body) /\ body.t = "obj" THEN
        IF IsArray(Get(body, "elements")) THEN Get(body, "elements").items
        ELSE IF IsArray(Get(body, "jobs")) THEN Get(body, "jobs").items
        ELSE IF IsArray(Get(body, "data")) THEN Get(body, "data").items
        ELSE IF StartsWithLt(Stringify(body))
             THEN parseLinkedInHtml([cards |-> <<>>])
        ELSE <<>>
    ELSE IF body.t = "str" THEN parseLinkedInHtml([cards |-> CardsOf(body)])
    ELSE <<>>

\* src/unnamed/part_001: the same cascade, entered only for a truthy body
ResolveRaw001(body) ==
    IF ~Truthy(body) THEN <<>>
    ELSE IF IsArray(body) THEN body.items
    ELSE IF body.t = "obj" THEN
        IF IsArray(Get(body, "elements")) THEN Get(body, "elements").items
        ELSE IF IsArray(Get(body, "jobs")) THEN Get(body, "jobs").items
        ELSE IF IsArray(Get(body, "data")) THEN Get(body, "data").items
        ELSE IF StartsWithLt(Stringify(body))
             THEN parseLinkedInHtml001([cards |-> <<>>])
        ELSE <<>>
    ELSE IF body.t = "str" THEN parseLinkedInHtml001([cards |-> CardsOf(body)])
    ELSE <<>>

-----------------------------------------------------------------------------
(* Relevance filters of src/server.js *)

\* Filter 1: title/company/description holds a target keyword
Filter1Keeps(j) ==
    LET hay == joinText(<<j.position, j.company, j.description>>)
    IN  \E k \in TITLE_KEYWORDS : Includes(hay, k)

\* Filter 2: remote tokens in location, position, company, description, url
RemoteKeeps(j) ==
    containsAny(joinText(<<j.location, j.position, j.company, j.description,
                           j.jobUrl>>), REMOTE_TOKENS)

\* Filter 3: contract tokens in position, company, description, url
ContractKeeps(j) ==
    containsAny(joinText(<<j.position, j.company, j.description, j.jobUrl>>),
                CONTRACT_TOKENS)

\* the list after Filter 2 of src/server.js
ApplyRemote(list) == SelectSeq(list, RemoteKeeps)

\* the list after Filter 3 of src/server.js
ApplyContract(list) == SelectSeq(list, ContractKeeps)

-----------------------------------------------------------------------------
(* Deduplicator of src/server.js *)

\* the key of a posting: id:<jobId>, url:<jobUrl> or pc:<position>|<company>
DedupKey(j) ==
    IF extractJobId(j.jobUrl) # <<>> THEN <<"id:">> \o extractJobId(j.jobUrl)
    ELSE IF j.jobUrl # <<>> THEN <<"url:">> \o j.jobUrl
    ELSE <<"pc:">> \o j.position \o <<"|">> \o j.company

\* `https://www.linkedin.com${jobUrl}` for a relative jobUrl
Absolutize(url) == IF StartsWithSlash(url) THEN <<Host>> \o url ELSE url

\* a haystack that leaves the description out
FlagHay_NoDescription(j, url) ==
    joinText(<<j.location, j.position, j.company, url>>)

FlagHay(j, url) ==
    joinText(<<j.location, j.position, j.company, j.description, url>>)

\* what the loop body does to a posting it keeps
Annotate(j) ==
    LET url == Absolutize(j.jobUrl)
        id  == extractJobId(j.jobUrl)
    IN  [ position    |-> j.position,
          company     |-> j.company,
          location    |-> j.location,
          date        |-> j.date,
          salary      |-> j.salary,
          jobUrl      |-> url,
          companyLogo |-> j.companyLogo,
          description |-> j.description,
          companyUrl  |-> IF "companyUrl" \in DOMAIN j THEN j.companyUrl ELSE <<>>,
          isRemote    |-> containsAny(FlagHay(j, url), REMOTE_TOKENS),
          isContract  |-> containsAny(FlagHay(j, url), CONTRACT_TOKENS),
          jobId       |-> IF id # <<>> THEN id ELSE DedupKey(j) ]

RECURSIVE DedupLoop(_, _, _)
DedupLoop(list, seen, out) ==
    IF list = <<>> THEN out
    ELSE LET j   == Head(list)
             key == DedupKey(j)
         IN  IF key \in seen
             THEN DedupLoop(Tail(list), seen, out)
             ELSE DedupLoop(Tail(list), seen \cup {key}, Append(out, Annotate(j)))

Dedup(list) == DedupLoop(list, {}, <<>>)

-----------------------------------------------------------------------------
(* Result Assembler of src/server.js *)

SnippetBudget == 800

\* arr.slice(n): what is left after the first n
Slice_From(arr, n) == SubSeq(arr, n + 1, Len(arr))

\* arr.slice(0, n)
Slice(arr, n) == SubSeq(arr, 1, IF n < Len(arr) THEN n ELSE Len(arr))

OutputJob(j) ==
    [ jobId              |-> j.jobId,
      position           |-> j.position,
      company            |-> j.company,
      location           |-> j.location,
      date               |-> j.date,
      salary             |-> j.salary,
      jobUrl             |-> j.jobUrl,
      companyUrl         |-> j.companyUrl,
      companyLogo        |-> j.companyLogo,
      descriptionSnippet |-> Slice(j.description, SnippetBudget),
      isRemote           |-> j.isRemote,
      isContract         |-> j.isContract ]

\* Output with the two totals exchanged
Output_TotalsSwapped(raw, ded, limit) ==
    LET outputJobs == Slice(ded, limit)
    IN  [ kind         |-> "result",
          status       |-> 200,
          totalFetched |-> Len(ded),
          totalMatched |-> Len(raw),
          returned     |-> Len(outputJobs),
          jobs         |-> [i \in 1..Len(outputJobs) |-> OutputJob(outputJobs[i])] ]

Output(raw, ded, limit) ==
    LET outputJobs == Slice(ded, limit)
    IN  [ kind         |-> "result",
          status       |-> 200,
          totalFetched |-> Len(raw),
          totalMatched |-> Len(ded),
          returned     |-> Len(outputJobs),
          jobs         |-> [i \in 1..Len(outputJobs) |-> OutputJob(outputJobs[i])] ]

\* res.status(code).json({error, detail})
ErrorResponse(code, msg) ==
    [ kind |-> "error", status |-> code, error |-> msg, jobs |-> <<>> ]

-----------------------------------------------------------------------------
(* normalizeLocation of src/server.js *)

UnitedStates == <<"United", SP, "States">>

\* s.replace(/\bUS\b/gi, 'United States'), from position i on
RECURSIVE ReplaceUS(_, _)
ReplaceUS(s, i) ==
    IF i > Len(s) THEN <<>>
    ELSE IF /\ LowerAtom(s[i]) = "us"
            /\ (i = 1 \/ s[i - 1] \in NonWord)
            /\ (i = Len(s) \/ s[i + 1] \in NonWord)
         THEN UnitedStates \o ReplaceUS(s, i + 1)
    ELSE <<s[i]>> \o ReplaceUS(s, i + 1)

\* s.replace(/[,\s]+/g, ' ')
RECURSIVE CollapseSep(_)
CollapseSep(s) ==
    IF s = <<>> THEN <<>>
    ELSE IF s[1] \in {",", SP}
         THEN IF Len(s) > 1 /\ s[2] \in {",", SP}
              THEN CollapseSep(Tail(s))
              ELSE <<SP>> \o CollapseSep(Tail(s))
    ELSE <<s[1]>> \o CollapseSep(Tail(s))

\* s.split(/\s+/) for a trimmed, collapsed string; cur is the token being read
RECURSIVE SplitWs(_, _)
SplitWs(s, cur) ==
    IF s = <<>> THEN <<cur>>
    ELSE IF s[1] = SP THEN <<cur>> \o SplitWs(Tail(s), <<>>)
    ELSE SplitWs(Tail(s), Append(cur, s[1]))

\* Array.from(new Set(tokens)): first occurrences, in order
RECURSIVE Unique(_, _)
Unique(tokens, seen) ==
    IF tokens = <<>> THEN <<>>
    ELSE IF tokens[1] \in seen THEN Unique(Tail(tokens), seen)
    ELSE <<tokens[1]>> \o Unique(Tail(tokens), seen \cup {tokens[1]})

normalizeLocation(loc) ==
    IF loc = <<>> THEN <<>>
    ELSE Join(Unique(SplitWs(Trim(CollapseSep(ReplaceUS(Trim(loc), 1))), <<>>),
                     {}))

-----------------------------------------------------------------------------
(* Inputs: upstream bodies and request options *)

HelpDesk     == <<"help", SP, "desk">>
HelpDeskCap  == <<"Help", SP, "Desk">>
RemoteUS     == <<"Remote", ",", SP, "US">>
RelView1     == <<"/", "jobs", "/", "view", "/", "1">>
QueryView1   == <<Host, "/", "jobs", "?", "currentJobId", "=", "1">>
RelX         == <<"/", "x">>
AbsX         == <<Host, "/", "x">>

\* raw records an upstream array may hold
RawPool ==
    { Obj([title |-> Str(<<"x">>), description |-> Str(<<"remote">>)]),
      Obj([title |-> Str(HelpDesk), companyName |-> Str(<<"Acme">>),
           location |-> Str(RemoteUS), jobUrl |-> Str(RelView1)]),
      Obj([position |-> Str(HelpDesk), url |-> Str(QueryView1),
           description |-> Str(<<"contract">>)]),
      Obj([title |-> Str(HelpDesk), jobUrl |-> Str(RelX)]),
      Obj([title |-> Str(HelpDeskCap), applyUrl |-> Str(AbsX),
           snippet |-> Str(<<"temp", "orary">>)]),
      Obj([description |-> Str(HelpDesk)]),
      Obj([name |-> Str(HelpDesk)]),
      Obj([position |-> Str(<<"msp", "|", "x">>)]),
      Obj([position |-> Str(<<"msp">>), company |-> Str(<<"x", "|">>)]),
      Obj([title |-> Str(<<"x">>), subtitle |-> Str(<<"y">>)]),
      Obj([title |-> Num(5)]),
      Null }

SeqsUpTo(S, n) == UNION {[1..k -> S] : k \in 0..n}

\* values of the fields `elements`, `jobs` and `data` of a mapping body
FieldPool ==
    { Undefined, Num(1),
      Arr(<< Obj([title |-> Str(HelpDesk), jobUrl |-> Str(RelX)]) >>),
      Arr(<< Obj([title |-> Str(<<"msp">>)]) >>) }

MappingBodies ==
    { Obj([elements |-> e, jobs |-> j, data |-> d]) :
        e \in FieldPool, j \in FieldPool, d \in FieldPool }

\* DOM nodes a markup body may hold
CardPool ==
    { [cls |-> 1, title |-> HelpDeskCap, anchorText |-> <<>>,
       subtitle |-> <<"Acme">>, loc |-> <<"Remote">>, href |-> RelView1],
      [cls |-> 3, title |-> <<>>, anchorText |-> HelpDesk,
       subtitle |-> <<>>, loc |-> <<>>, href |-> <<Host>> \o RelView1],
      [cls |-> 5, title |-> <<>>, anchorText |-> <<>>,
       subtitle |-> <<>>, loc |-> <<>>, href |-> <<>>],
      [cls |-> 0, title |-> <<>>, anchorText |-> <<"msp">>,
       subtitle |-> <<>>, loc |-> <<>>, href |-> RelView1] }

\* one longer page: two distinct matching postings around one that matches
\* nothing
LongPage ==
    Arr(<< Obj([title |-> Str(<<"msp">>), jobUrl |-> Str(RelView1)]),
           Obj([title |-> Str(<<"x">>), subtitle |-> Str(<<"y">>)]),
           Obj([title |-> Str(HelpDesk), location |-> Str(<<"Remote">>),
                jobUrl |-> Str(RelX)]) >>)

Bodies ==
    {Arr(xs) : xs \in SeqsUpTo(RawPool, MaxJobs)}
        \cup {LongPage}
        \cup MappingBodies
        \cup {Markup(cs) : cs \in SeqsUpTo(CardPool, MaxJobs)}
        \cup {Str(<<>>), Num(0), Num(5), Null}

Variants == {"server", "part000", "part001"}

\* limit clamps: Math.min(Math.max(limit, 1), top)
LimitTopServer == 200
LimitTop       == 100

Clamp(n, lo, hi) == IF n < lo THEN lo ELSE IF n > hi THEN hi ELSE n

\* caller-supplied extra required terms (title_filters of part_000)
TitleFilterPool == { <<>>, << <<"x">> >> }

\* detail pages the enrichment step may get: description text and company link
DetailText == <<"remote", SP, "contract", SP, "help", SP, "desk">>
DetailPages ==
    { [desc |-> <<>>, link |-> <<>>],
      [desc |-> DetailText, link |-> <<"/", "company", "/", "acme">>] }

\* the `limit` query parameters a request may carry: one below the range of
\* the page size, one inside it, and one above it
LimitParams == {0, MaxLimit, LimitTopServer + 1}

Init ==
    /\ variant \in Variants
    /\ \E lim \in LimitParams, rr \in BOOLEAN, rc \in BOOLEAN, fd \in BOOLEAN,
          tf \in TitleFilterPool :
          /\ variant # "server" => (rc = FALSE /\ fd = FALSE)
          /\ fd => lim = MaxLimit
          /\ variant # "part000" => tf = <<>>
          /\ variant = "part001" => rr = FALSE
          /\ opts = [ location |-> normalizeLocation(UnitedStates),
                      limitParam |-> lim,
                      limit |-> Clamp(lim, 1, IF variant = "server"
                                               THEN LimitTopServer ELSE LimitTop),
                      requireRemote |-> rr, requireContract |-> rc,
                      fetchDetails |-> fd, titleFilters |-> tf ]
    /\ \E o \in {"ok", "status", "fail"}, b \in Bodies :
          /\ o = "fail" => b = Null
          /\ o = "status" => (b.t = "arr" => Len(b.items) <= MaxErrJobs)
          /\ variant = "part000" => o # "status"
          /\ exchange = [outcome |-> o, body |-> b]
    /\ pc = "fetch"
    /\ rawJobs = <<>>
    /\ normalized = <<>>
    /\ enrichIdx = 1
    /\ inFlight = {}
    /\ pages = <<>>
    /\ preConstraint = <<>>
    /\ strictList = <<>>
    /\ deduped = <<>>
    /\ response = [kind |-> "none"]

-----------------------------------------------------------------------------
(* src/server.js: GET /search *)

Finish(r) ==
    /\ response' = r
    /\ pc' = "done"

\* axios.get resolves, or rejects with a response that carries a truthy body
FetchServer ==
    /\ variant = "server" /\ pc = "fetch"
    /\ IF \/ exchange.outcome = "ok"
          \/ exchange.outcome = "status" /\ Truthy(exchange.body)
       THEN pc' = "parse" /\ UNCHANGED response
       ELSE Finish(ErrorResponse(502, "Upstream request failed"))
    /\ UNCHANGED <<variant, opts, exchange, rawJobs, normalized, enrichIdx,
                   inFlight, pages, preConstraint, strictList, deduped>>

ParseServer ==
    /\ variant = "server" /\ pc = "parse"
    /\ rawJobs' = ResolveRaw(exchange.body)
    /\ pc' = "normalize"
    /\ UNCHANGED <<variant, opts, exchange, normalized, enrichIdx, inFlight, pages,
                   preConstraint, strictList, deduped, response>>

\* rawJobs.map(normalizeJob); a TypeError reaches the handler's outer catch
NormalizeServer ==
    /\ variant = "server" /\ pc = "normalize"
    /\ IF \E i \in 1..Len(rawJobs) : normalizeThrows(rawJobs[i])
       THEN /\ Finish(ErrorResponse(500, "Internal server error"))
            /\ UNCHANGED normalized
       ELSE /\ normalized' = Normalizer(rawJobs)
            /\ pc' = IF opts.fetchDetails /\ rawJobs # <<>>
                     THEN "enrich" ELSE "filter1"
            /\ UNCHANGED response
    /\ UNCHANGED <<variant, opts, exchange, rawJobs, enrichIdx, inFlight, pages,
                   preConstraint, strictList, deduped>>

\* a loop iteration that overwrites the description with what the page gave
Enriched_Overwrites(j, page) ==
    LET t    == IF page.ok THEN Trim(page.desc) ELSE <<>>
        link == IF page.ok THEN page.link ELSE <<>>
    IN  [ position    |-> j.position,
          company     |-> j.company,
          location    |-> j.location,
          date        |-> j.date,
          salary      |-> j.salary,
          jobUrl      |-> j.jobUrl,
          companyLogo |-> j.companyLogo,
          description |-> t,
          companyUrl  |-> IF link = <<>> THEN <<>>
                          ELSE IF StartsWithHttp(link) THEN link
                          ELSE <<Host>> \o link ]

\* fetchJobDetailIfNeeded: what one loop iteration pushes for posting j, given
\* the detail page it got (page.ok = FALSE: the request failed or timed out)
Enriched(j, page) ==
    LET t    == IF page.ok THEN Trim(page.desc) ELSE <<>>
        link == IF page.ok THEN page.link ELSE <<>>
    IN  [ position    |-> j.position,
          company     |-> j.company,
          location    |-> j.location,
          date        |-> j.date,
          salary      |-> j.salary,
          jobUrl      |-> j.jobUrl,
          companyLogo |-> j.companyLogo,
          description |-> IF j.description # <<>> THEN j.description ELSE t,
          companyUrl  |-> IF link = <<>> THEN <<>>
                          ELSE IF StartsWithHttp(link) THEN link
                          ELSE <<Host>> \o link ]

NoPage == [ok |-> FALSE, desc |-> <<>>, link |-> <<>>]

\* how the iteration for one posting ended: whether a request was sent, and
\* the page it got
Outcome(sent, page) ==
    [sent |-> sent, ok |-> page.ok, desc |-> page.desc, link |-> page.link]

\* requests for every posting that is left, all at once (no await in the loop)
EnrichIssue_All ==
    /\ variant = "server" /\ pc = "enrich"
    /\ inFlight = {}
    /\ enrichIdx <= Len(normalized)
    /\ normalized[enrichIdx].jobUrl # <<>>
    /\ inFlight' = {i \in enrichIdx..Len(normalized) : normalized[i].jobUrl # <<>>}
    /\ UNCHANGED <<variant, opts, exchange, pc, rawJobs, normalized, enrichIdx,
                   pages, preConstraint, strictList, deduped, response>>

\* the loop reaches a posting with a jobUrl and issues its detail request
EnrichIssue ==
    /\ variant = "server" /\ pc = "enrich"
    /\ inFlight = {}
    /\ enrichIdx <= Len(normalized)
    /\ normalized[enrichIdx].jobUrl # <<>>
    /\ inFlight' = {enrichIdx}
    /\ UNCHANGED <<variant, opts, exchange, pc, rawJobs, normalized, enrichIdx,
                   pages, preConstraint, strictList, deduped, response>>

\* the awaited request settles: a page, or an error the catch swallows
EnrichSettle ==
    /\ variant = "server" /\ pc = "enrich"
    /\ enrichIdx \in inFlight
    /\ \E page \in {NoPage} \cup
                   {[ok |-> TRUE, desc |-> d.desc, link |-> d.link] : d \in DetailPages} :
          /\ normalized' = [normalized EXCEPT
                               ![enrichIdx] = Enriched(normalized[enrichIdx], page)]
          /\ pages' = Append(pages, Outcome(TRUE, page))
    /\ inFlight' = inFlight \ {enrichIdx}
    /\ enrichIdx' = enrichIdx + 1
    /\ UNCHANGED <<variant, opts, exchange, pc, rawJobs, preConstraint,
                   strictList, deduped, response>>

\* a posting without jobUrl is pushed with no request
EnrichSkip ==
    /\ variant = "server" /\ pc = "enrich"
    /\ inFlight = {}
    /\ enrichIdx <= Len(normalized)
    /\ normalized[enrichIdx].jobUrl = <<>>
    /\ normalized' = [normalized EXCEPT
                         ![enrichIdx] = Enriched(normalized[enrichIdx], NoPage)]
    /\ pages' = Append(pages, Outcome(FALSE, NoPage))
    /\ enrichIdx' = enrichIdx + 1
    /\ UNCHANGED <<variant, opts, exchange, pc, rawJobs, inFlight,
                   preConstraint, strictList, deduped, response>>

EnrichDone ==
    /\ variant = "server" /\ pc = "enrich"
    /\ inFlight = {}
    /\ enrichIdx > Len(normalized)
    /\ pc' = "filter1"
    /\ UNCHANGED <<variant, opts, exchange, rawJobs, normalized, enrichIdx,
                   inFlight, pages, preConstraint, strictList, deduped, response>>

\* Filter 1
Filter1Server ==
    /\ variant = "server" /\ pc = "filter1"
    /\ normalized' = SelectSeq(normalized, Filter1Keeps)
    /\ pc' = "filter2"
    /\ UNCHANGED <<variant, opts, exchange, rawJobs, enrichIdx, inFlight, pages,
                   preConstraint, strictList, deduped, response>>

\* Filter 2; preConstraint records the list the filter was given
Filter2Server ==
    /\ variant = "server" /\ pc = "filter2"
    /\ preConstraint' = normalized
    /\ normalized' = IF opts.requireRemote THEN ApplyRemote(normalized)
                     ELSE normalized
    /\ pc' = "filter3"
    /\ UNCHANGED <<variant, opts, exchange, rawJobs, enrichIdx, inFlight, pages,
                   strictList, deduped, response>>

\* Filter 3; preConstraint records the list the filter was given
Filter3Server ==
    /\ variant = "server" /\ pc = "filter3"
    /\ preConstraint' = normalized
    /\ normalized' = IF opts.requireContract THEN ApplyContract(normalized)
                     ELSE normalized
    /\ pc' = "dedup"
    /\ UNCHANGED <<variant, opts, exchange, rawJobs, enrichIdx, inFlight, pages,
                   strictList, deduped, response>>

DedupServer ==
    /\ variant = "server" /\ pc = "dedup"
    /\ deduped' = Dedup(normalized)
    /\ pc' = "assemble"
    /\ UNCHANGED <<variant, opts, exchange, rawJobs, normalized, enrichIdx,
                   inFlight, pages, preConstraint, strictList, response>>

AssembleServer ==
    /\ variant = "server" /\ pc = "assemble"
    /\ Finish(Output(rawJobs, deduped, opts.limit))
    /\ UNCHANGED <<variant, opts, exchange, rawJobs, normalized, enrichIdx,
                   inFlight, pages, preConstraint, strictList, deduped>>

NextServer ==
    \/ FetchServer \/ ParseServer \/ NormalizeServer
    \/ EnrichIssue \/ EnrichSettle \/ EnrichSkip \/ EnrichDone
    \/ Filter1Server \/ Filter2Server \/ Filter3Server
    \/ DedupServer \/ AssembleServer

-----------------------------------------------------------------------------
(* src/unnamed/part_001: GET /search *)

AgoAliases == <<"agoTime", "age">>

normalizeThrows001(raw) ==
    \/ normalizeThrows(raw)
    \/ FirstTruthy(raw, AgoAliases, <<>>).t # "str"

normalizeJob001(raw) ==
    [ position    |-> PickTrim(raw, PositionAliases, <<>>),
      company     |-> PickTrim(raw, CompanyAliases, <<>>),
      location    |-> PickTrim(raw, LocationAliases, <<>>),
      date        |-> PickTrim(raw, DateAliases, <<>>),
      salary      |-> PickTrim(raw, SalaryAliases, NotSpecified),
      jobUrl      |-> PickTrim(raw, UrlAliases, <<>>),
      companyLogo |-> PickTrim(raw, LogoAliases, <<>>),
      agoTime     |-> PickTrim(raw, AgoAliases, <<>>),
      description |-> PickTrim(raw, DescAliases, <<>>) ]

\* .filter(j => (j.position || j.company))
HasIdentity(j) == j.position # <<>> \/ j.company # <<>>

matchesTitleOrCompany(job) ==
    LET hay == Lower(job.position \o <<SP>> \o job.company \o <<SP>>
                     \o job.description)
    IN  \/ \E kw \in TITLE_KEYWORDS_001 : Includes(hay, kw)
        \/ WordTech(hay)

\* rawJobs.map(normalizeJob).filter(j => (j.position || j.company))
Normalizer001(raw) ==
    SelectSeq([i \in 1..Len(raw) |-> normalizeJob001(raw[i])], HasIdentity)

\* (j.jobUrl || (j.position + '|' + j.company)).trim()
DedupKey001(j) ==
    Trim(IF j.jobUrl # <<>> THEN j.jobUrl
         ELSE j.position \o <<"|">> \o j.company)

RECURSIVE DedupLoop001(_, _, _)
DedupLoop001(list, seen, out) ==
    IF list = <<>> THEN out
    ELSE LET j   == Head(list)
             key == DedupKey001(j)
         IN  IF key \in seen
             THEN DedupLoop001(Tail(list), seen, out)
             ELSE DedupLoop001(Tail(list), seen \cup {key},
                               Append(out, [j EXCEPT !.jobUrl = Absolutize(j.jobUrl)]))

Dedup001(list) == DedupLoop001(list, {}, <<>>)

Output001(raw, ded, limit) ==
    [ kind         |-> "result",
      status       |-> 200,
      totalFetched |-> Len(raw),
      totalMatched |-> Len(ded),
      returned     |-> Len(Slice(ded, limit)),
      jobs         |-> Slice(ded, limit) ]

\* a rejection without a truthy response body is rethrown to the outer catch
Fetch001 ==
    /\ variant = "part001" /\ pc = "fetch"
    /\ IF \/ exchange.outcome = "ok"
          \/ exchange.outcome = "status" /\ Truthy(exchange.body)
       THEN pc' = "parse" /\ UNCHANGED response
       ELSE Finish(ErrorResponse(500, "Upstream fetch or normalization failed"))
    /\ UNCHANGED <<variant, opts, exchange, rawJobs, normalized, enrichIdx,
                   inFlight, pages, preConstraint, strictList, deduped>>

Parse001 ==
    /\ variant = "part001" /\ pc = "parse"
    /\ rawJobs' = ResolveRaw001(exchange.body)
    /\ pc' = "normalize"
    /\ UNCHANGED <<variant, opts, exchange, normalized, enrichIdx, inFlight, pages,
                   preConstraint, strictList, deduped, response>>

\* rawJobs.map(normalizeJob).filter(identity).filter(matchesTitleOrCompany)
Normalize001 ==
    /\ variant = "part001" /\ pc = "normalize"
    /\ IF \E i \in 1..Len(rawJobs) : normalizeThrows001(rawJobs[i])
       THEN /\ Finish(ErrorResponse(500, "Upstream fetch or normalization failed"))
            /\ UNCHANGED normalized
       ELSE /\ normalized' = SelectSeq(Normalizer001(rawJobs), matchesTitleOrCompany)
            /\ pc' = "dedup"
            /\ UNCHANGED response
    /\ UNCHANGED <<variant, opts, exchange, rawJobs, enrichIdx, inFlight, pages,
                   preConstraint, strictList, deduped>>

DedupStep001 ==
    /\ variant = "part001" /\ pc = "dedup"
    /\ deduped' = Dedup001(normalized)
    /\ pc' = "assemble"
    /\ UNCHANGED <<variant, opts, exchange, rawJobs, normalized, enrichIdx,
                   inFlight, pages, preConstraint, strictList, response>>

Assemble001 ==
    /\ variant = "part001" /\ pc = "assemble"
    /\ Finish(Output001(rawJobs, deduped, opts.limit))
    /\ UNCHANGED <<variant, opts, exchange, rawJobs, normalized, enrichIdx,
                   inFlight, pages, preConstraint, strictList, deduped>>

Next001 ==
    \/ Fetch001 \/ Parse001 \/ Normalize001 \/ DedupStep001 \/ Assemble001

-----------------------------------------------------------------------------
(* src/unnamed/part_000: GET /search *)

Range(f) == {f[i] : i \in DOMAIN f}

DigitAtom == <<"1", "2", "3", "4", "5", "6", "7", "8", "9">>

\* String(v) as Array.prototype.join applies it to a truthy field
ToStr(v) ==
    IF v.t = "str" THEN v.s
    ELSE IF v.t = "num" /\ v.n \in 1..9 THEN <<DigitAtom[v.n]>>
    ELSE <<"[object Object]">>

TextForFields ==
    <<"position", "title", "name", "description", "snippet", "summary",
      "company", "companyName", "location", "jobUrl">>

RECURSIVE TruthyParts(_, _)
TruthyParts(job, names) ==
    IF names = <<>> THEN <<>>
    ELSE IF Truthy(Get(job, names[1]))
         THEN <<ToStr(Get(job, names[1]))>> \o TruthyParts(job, Tail(names))
    ELSE TruthyParts(job, Tail(names))

textFor(job) == Lower(Join(TruthyParts(job, TextForFields)))

\* (job.location || "").toLowerCase().includes("remote")
LocationHasRemote(job) ==
    /\ Truthy(Get(job, "location"))
    /\ Includes(Lower(ToStr(Get(job, "location"))), <<"remote">>)

\* scoreJob raises a TypeError: job is null or undefined, or job.location is
\* truthy and no string
scoreThrows(job) ==
    \/ job.t \in {"null", "undefined"}
    \/ Truthy(Get(job, "location")) /\ Get(job, "location").t # "str"

WeightMust    == 60
WeightBroader == 8
WeightRemote  == 10
BonusLocation == 12

Hits(t, keywords) == Cardinality({k \in keywords : Includes(t, k)})

\* a score that forgets the broader terms
scoreJob_NoBroader(job, must, broader, remote) ==
    LET t == textFor(job)
    IN  WeightMust * Hits(t, must) + WeightRemote * Hits(t, remote)
          + (IF LocationHasRemote(job) THEN BonusLocation ELSE 0)

scoreJob(job, must, broader, remote) ==
    LET t == textFor(job)
    IN  WeightMust * Hits(t, must) + WeightBroader * Hits(t, broader)
          + WeightRemote * Hits(t, remote)
          + (IF LocationHasRemote(job) THEN BonusLocation ELSE 0)

\* mustKeywords after title_filters are merged in
MustKeywords(tf) == Range(mustKeywordsBase) \cup Range(tf)

Score(job, tf) ==
    scoreJob(job, MustKeywords(tf), Range(broaderKeywords), Range(remoteIndicators))

\* Array.prototype.sort((a, b) => b.score - a.score): stable, descending
RECURSIVE InsertByScore(_, _, _)
InsertByScore(sorted, job, tf) ==
    IF sorted = <<>> THEN <<job>>
    ELSE IF Score(Head(sorted), tf) >= Score(job, tf)
         THEN <<Head(sorted)>> \o InsertByScore(Tail(sorted), job, tf)
    ELSE <<job>> \o sorted

RECURSIVE SortByScore(_, _)
SortByScore(list, tf) ==
    IF list = <<>> THEN <<>>
    ELSE InsertByScore(SortByScore(SubSeq(list, 1, Len(list) - 1), tf),
                       list[Len(list)], tf)

\* the strict pass: postings with a positive score, best first
StrictPass(jobs, tf) ==
    LET positive(job) == Score(job, tf) > 0
    IN  SortByScore(SelectSeq(jobs, positive), tf)

\* a fuzzy fallback that keeps every job
FuzzyKeeps_All(job, tf) == TRUE

\* the predicate of the fuzzy fallback
FuzzyKeeps(job, tf) ==
    \/ \E k \in Range(broaderKeywords) : Includes(textFor(job), k)
    \/ \E k \in MustKeywords(tf) : Includes(textFor(job), k)

FuzzyPass(jobs, tf, limit) ==
    LET keep(job) == FuzzyKeeps(job, tf)
    IN  Slice(SelectSeq(jobs, keep), limit)

RemoteKeeps000(j) ==
    \/ \E k \in Range(remoteIndicators) : Includes(textFor(j), k)
    \/ LocationHasRemote(j)

\* "enforce remote if required": the narrowed list, unless it is empty
EnforceRemote(list) ==
    IF SelectSeq(list, RemoteKeeps000) # <<>>
    THEN SelectSeq(list, RemoteKeeps000) ELSE list

\* "Normalize to array of jobs"
ToJobs(results) ==
    IF IsArray(results) THEN results.items
    ELSE IF Truthy(results) /\ IsArray(Get(results, "jobs"))
         THEN Get(results, "jobs").items
    ELSE IF Truthy(results) /\ IsArray(Get(results, "results"))
         THEN Get(results, "results").items
    ELSE IF Truthy(results) /\ IsArray(Get(results, "data"))
         THEN Get(results, "data").items
    ELSE IF Truthy(results) THEN <<results>> ELSE <<>>

Output000(list) ==
    [ kind |-> "result", status |-> 200, returned |-> Len(list), jobs |-> list ]

\* searchFn resolves on one of its three call shapes, or all three reject
Call000 ==
    /\ variant = "part000" /\ pc = "fetch"
    /\ IF exchange.outcome = "ok"
       THEN pc' = "parse" /\ UNCHANGED response
       ELSE Finish(ErrorResponse(500, "searchFn rejected"))
    /\ UNCHANGED <<variant, opts, exchange, rawJobs, normalized, enrichIdx,
                   inFlight, pages, preConstraint, strictList, deduped>>

ToJobs000 ==
    /\ variant = "part000" /\ pc = "parse"
    /\ rawJobs' = ToJobs(exchange.body)
    /\ pc' = "score"
    /\ UNCHANGED <<variant, opts, exchange, normalized, enrichIdx, inFlight, pages,
                   preConstraint, strictList, deduped, response>>

\* "Filter and score"; a TypeError reaches the catch of the handler
Score000 ==
    /\ variant = "part000" /\ pc = "score"
    /\ IF \E i \in 1..Len(rawJobs) : scoreThrows(rawJobs[i])
       THEN /\ Finish(ErrorResponse(500, "TypeError"))
            /\ UNCHANGED <<normalized, strictList>>
       ELSE /\ normalized' = StrictPass(rawJobs, opts.titleFilters)
            /\ strictList' = StrictPass(rawJobs, opts.titleFilters)
            /\ pc' = "fuzzy"
            /\ UNCHANGED response
    /\ UNCHANGED <<variant, opts, exchange, rawJobs, enrichIdx, inFlight, pages,
                   preConstraint, deduped>>

\* "if nothing matched strictly, fallback to fuzzy broader match"
Fuzzy000 ==
    /\ variant = "part000" /\ pc = "fuzzy"
    /\ normalized' = IF normalized = <<>>
                     THEN FuzzyPass(rawJobs, opts.titleFilters, opts.limit)
                     ELSE normalized
    /\ pc' = "remote"
    /\ UNCHANGED <<variant, opts, exchange, rawJobs, enrichIdx, inFlight, pages,
                   preConstraint, strictList, deduped, response>>

\* preConstraint records the list the constraint was given
Remote000 ==
    /\ variant = "part000" /\ pc = "remote"
    /\ preConstraint' = normalized
    /\ normalized' = IF opts.requireRemote THEN EnforceRemote(normalized)
                     ELSE normalized
    /\ pc' = "truncate"
    /\ UNCHANGED <<variant, opts, exchange, rawJobs, enrichIdx, inFlight, pages,
                   strictList, deduped, response>>

Truncate000 ==
    /\ variant = "part000" /\ pc = "truncate"
    /\ Finish(Output000(Slice(normalized, opts.limit)))
    /\ UNCHANGED <<variant, opts, exchange, rawJobs, normalized, enrichIdx,
                   inFlight, pages, preConstraint, strictList, deduped>>

Next000 ==
    \/ Call000 \/ ToJobs000 \/ Score000 \/ Fuzzy000 \/ Remote000 \/ Truncate000

Next == NextServer \/ Next001 \/ Next000

Spec == Init /\ [][Next]_vars

-----------------------------------------------------------------------------
(* The handlers as functions of the request, for a request without detail  *)
(* enrichment (the one step whose outcome the request does not determine)  *)

SearchServer(o, body) ==
    LET raw == ResolveRaw(body)
        f1  == SelectSeq(Normalizer(raw), Filter1Keeps)
        f2  == IF o.requireRemote THEN ApplyRemote(f1) ELSE f1
        f3  == IF o.requireContract THEN ApplyContract(f2) ELSE f2
    IN  IF \E i \in 1..Len(raw) : normalizeThrows(raw[i])
        THEN ErrorResponse(500, "Internal server error")
        ELSE Output(raw, Dedup(f3), o.limit)

Search001(o, body) ==
    LET raw == ResolveRaw001(body)
        f   == SelectSeq(Normalizer001(raw), matchesTitleOrCompany)
    IN  IF \E i \in 1..Len(raw) : normalizeThrows001(raw[i])
        THEN ErrorResponse(500, "Upstream fetch or normalization failed")
        ELSE Output001(raw, Dedup001(f), o.limit)

Search000(o, body) ==
    LET jobs   == ToJobs(body)
        strict == StrictPass(jobs, o.titleFilters)
        final  == IF strict = <<>> THEN FuzzyPass(jobs, o.titleFilters, o.limit)
                  ELSE strict
        rem    == IF o.requireRemote THEN EnforceRemote(final) ELSE final
    IN  IF \E i \in 1..Len(jobs) : scoreThrows(jobs[i])
        THEN ErrorResponse(500, "TypeError")
        ELSE Output000(Slice(rem, o.limit))

\* the response to an exchange that succeeded with `body`
SearchOk(v, o, body) ==
    CASE v = "server"  -> SearchServer(o, body)
      [] v = "part001" -> Search001(o, body)
      [] v = "part000" -> Search000(o, body)

\* the step-by-step handlers and the functions above agree
SearchAgrees ==
    (pc = "done" /\ exchange.outcome = "ok" /\ ~opts.fetchDetails)
        => response = SearchOk(variant, opts, exchange.body)

-----------------------------------------------------------------------------
(* Claims *)

HasCounters == variant \in {"server", "part001"}

Answered == pc = "done" /\ response.kind = "result"

\* C1: in every result object of src/server.js and src/unnamed/part_001,
\* returned <= totalMatched <= totalFetched, where totalFetched counts the raw
\* records resolved from the body, totalMatched the postings left after
\* filtering and deduplication, and returned the postings in the response.
C1_CountersOrdered ==
    (Answered /\ HasCounters) =>
        /\ response.totalFetched = Len(rawJobs)
        /\ response.totalMatched = Len(deduped)
        /\ response.returned = Len(response.jobs)
        /\ response.returned <= response.totalMatched
        /\ response.totalMatched <= response.totalFetched

\* a result whose page is shorter than the match list, itself shorter than
\* the fetched list
C1_Witness ==
    /\ Answered /\ variant = "server"
    /\ response.returned < response.totalMatched
    /\ response.totalMatched < response.totalFetched

\* the remote constraint was requested and has been applied
RemoteApplied ==
    /\ opts.requireRemote
    /\ \/ variant = "server" /\ pc = "filter3"
       \/ variant = "part000" /\ pc = "truncate"

\* the contract constraint was requested and has been applied
ContractApplied ==
    /\ opts.requireContract
    /\ variant = "server" /\ pc = "dedup"

MatchesRemote(j) ==
    IF variant = "server" THEN RemoteKeeps(j) ELSE RemoteKeeps000(j)

NoneIn(list, P(_)) == \A i \in 1..Len(list) : ~P(list[i])

\* C2: when requireRemote (or requireContract) is requested and the
\* pre-constraint list is non-empty but holds no posting that matches the
\* remote (contract) vocabulary, the constraint is not applied and the list
\* is returned unchanged; a requested constraint never turns a non-empty
\* pre-constraint list into an empty one.
C2_SoftConstraint ==
    /\ (RemoteApplied /\ preConstraint # <<>>) =>
          /\ normalized # <<>>
          /\ NoneIn(preConstraint, MatchesRemote) => normalized = preConstraint
    /\ (ContractApplied /\ preConstraint # <<>>) =>
          /\ normalized # <<>>
          /\ NoneIn(preConstraint, ContractKeeps) => normalized = preConstraint

\* the postings of a list: their upstream fields and url, without the
\* derived id and flags
Postings(list) ==
    [i \in 1..Len(list) |->
        [ position |-> list[i].position, company |-> list[i].company,
          location |-> list[i].location, jobUrl |-> list[i].jobUrl,
          description |-> list[i].description ]]

\* C3: running the deduplication step (key derivation, first-wins drop,
\* relative-to-absolute url rewrite) a second time on its own output drops no
\* further posting and leaves the sequence of postings unchanged.
C3_DedupIdempotent ==
    /\ (variant = "server" /\ pc = "assemble") =>
          Postings(Dedup(deduped)) = Postings(deduped)
    /\ (variant = "part001" /\ pc = "assemble") =>
          Postings(Dedup001(deduped)) = Postings(deduped)

\* the dedup key as the claim defines it: the job id when the url holds one,
\* else the url when it is non-empty, else the pair (position, company)
ClaimKey(j) ==
    IF extractJobId(j.jobUrl) # <<>> THEN <<"id", extractJobId(j.jobUrl), <<>>>>
    ELSE IF j.jobUrl # <<>> THEN <<"url", j.jobUrl, <<>>>>
    ELSE <<"pc", j.position, j.company>>

\* the positions of a list that hold the first posting of their key
FirstOfKey(list, i) == \A k \in 1..(i - 1) : ClaimKey(list[k]) # ClaimKey(list[i])

Indexes(list) == [i \in 1..Len(list) |-> i]

FirstPerKey(list) ==
    LET first(i) == FirstOfKey(list, i)
        keep == SelectSeq(Indexes(list), first)
    IN  [n \in 1..Len(keep) |-> list[keep[n]]]

\* C4: the Deduplicator's output is exactly the subsequence of its input made
\* of the first posting for each dedup key, in input order, the key being the
\* job id parsed from the url when there is one, else the url when it is
\* non-empty, else the pair (position, company).
C4_FirstPerKey ==
    (variant = "server" /\ pc = "assemble") =>
        LET first == FirstPerKey(normalized)
        IN  deduped = [i \in 1..Len(first) |-> Annotate(first[i])]

\* the text the degradation law matches a posting on holds a required or a
\* broader term
InEitherVocabulary(job) ==
    \E k \in Range(mustKeywordsBase) \cup Range(opts.titleFilters)
             \cup Range(broaderKeywords) :
        Includes(textFor(job), k)

\* C5: whenever the strict (score > 0) pass yields no posting, every posting
\* the fuzzy fallback produces holds at least one required term (the
\* caller's extra terms included) or one broader term, and the fallback
\* produces at most pageSize postings.
C5_Degradation ==
    (variant = "part000" /\ pc = "remote" /\ strictList = <<>>) =>
        /\ \A i \in 1..Len(normalized) : InEitherVocabulary(normalized[i])
        /\ Len(normalized) <= opts.limit

\* the fallback ran on a page that holds jobs, none of which scored
C5_Witness ==
    /\ variant = "part000" /\ pc = "remote"
    /\ strictList = <<>>
    /\ rawJobs # <<>>

\* the HTML extraction of the handler that ran
Extract(body) ==
    IF variant = "server" THEN parseLinkedInHtml([cards |-> CardsOf(body)])
    ELSE parseLinkedInHtml001([cards |-> CardsOf(body)])

IsSeqField(body, name) ==
    body.t = "obj" /\ name \in DOMAIN body.f /\ body.f[name].t = "arr"

\* the raw-record sequence the resolution order of the claim picks
FirstMatch(body) ==
    CASE body.t = "arr" -> body.items
      [] body.t = "obj" /\ IsSeqField(body, "elements") -> body.f.elements.items
      [] body.t = "obj" /\ ~IsSeqField(body, "elements")
           /\ IsSeqField(body, "jobs") -> body.f.jobs.items
      [] body.t = "obj" /\ ~IsSeqField(body, "elements")
           /\ ~IsSeqField(body, "jobs")
           /\ IsSeqField(body, "data") -> body.f.data.items
      [] body.t = "obj" /\ ~IsSeqField(body, "elements")
           /\ ~IsSeqField(body, "jobs") /\ ~IsSeqField(body, "data") ->
             IF Head(Stringify(body)) = "<" THEN Extract(Str(Stringify(body)))
             ELSE <<>>
      [] body.t = "str" -> Extract(body)
      [] OTHER -> <<>>

Parsed == variant \in {"server", "part001"} /\ pc = "normalize"

\* C6: the resolver picks the raw-record sequence by first match: a sequence
\* body itself; else a mapping's sequence-valued field, `elements` before
\* `jobs` before `data`; else nothing for a mapping (its serialized text
\* never starts with '<'); the HTML extraction of a string body; nothing for
\* any other body.
C6_ResolutionOrder == Parsed => rawJobs = FirstMatch(exchange.body)

\* a mapping with a non-sequence `elements` and different `jobs` and `data`
\* sequences resolved to `jobs`
C6_Witness ==
    /\ Parsed /\ variant = "server"
    /\ exchange.body.t = "obj"
    /\ exchange.body.f.elements.t = "num"
    /\ IsSeqField(exchange.body, "jobs") /\ IsSeqField(exchange.body, "data")
    /\ exchange.body.f.jobs # exchange.body.f.data
    /\ rawJobs = exchange.body.f.jobs.items

\* the exchange delivered a body to the handler
BodyObtained ==
    \/ exchange.outcome = "ok"
    \/ exchange.outcome = "status" /\ Truthy(exchange.body)

\* C7: whenever a body was obtained, whatever its shape, search returns a
\* result object and not an error response; an error response is produced
\* only when the fetch could not complete, and it carries a diagnostic
\* message and no postings.
C7_OnlyUpstreamFailure ==
    (pc = "done" /\ HasCounters) =>
        /\ BodyObtained => response.kind = "result"
        /\ response.kind = "error" =>
              /\ ~BodyObtained
              /\ response.error # ""
              /\ response.jobs = <<>>

\* the selectors of the handler that ran see no card in the body
NoCards(body) ==
    CardNodes(CardsOf(body),
              IF variant = "server" THEN NumCardSelectors
              ELSE NumCardSelectors001) = <<>>

\* the body matches none of the resolver's shapes, or is a string with zero
\* recognizable cards
ShapeUnrecognized(body) ==
    CASE body.t = "arr" -> FALSE
      [] body.t = "obj" -> /\ ~IsSeqField(body, "elements")
                           /\ ~IsSeqField(body, "jobs")
                           /\ ~IsSeqField(body, "data")
      [] body.t = "str" -> NoCards(body)
      [] OTHER -> TRUE

\* C8: a body that matches none of the resolver's shapes, or a markup string
\* with zero recognizable cards, resolves to the empty raw-record sequence
\* without an error; the pipeline runs on, and the result is a success with
\* totalFetched = 0, returned = 0 and no posting.
C8_UnrecognizedIsEmpty ==
    (pc = "done" /\ HasCounters /\ BodyObtained
       /\ ShapeUnrecognized(exchange.body)) =>
        /\ response.kind = "result"
        /\ response.status = 200
        /\ rawJobs = <<>>
        /\ response.totalFetched = 0
        /\ response.returned = 0
        /\ response.jobs = <<>>

\* src/server.js answered a mapping body that holds none of the three fields
\* as a sequence
C8_Witness ==
    /\ pc = "done" /\ variant = "server"
    /\ exchange.body.t = "obj"
    /\ ShapeUnrecognized(exchange.body)
    /\ response.kind = "result"

\* a body is present unless it is null or the empty string
BodyPresent(body) == body \notin {Null, Undefined, Str(<<>>)}

\* C9: for every body value, the result of an exchange that fails with a
\* non-2xx status carrying that body equals the result of an exchange that
\* succeeds with the same body; only an exchange with no response body ends
\* in the upstream-failure outcome.
C9_StatusSameAsSuccess ==
    (pc = "done" /\ HasCounters /\ ~opts.fetchDetails
       /\ exchange.outcome = "status" /\ BodyPresent(exchange.body)) =>
        response = SearchOk(variant, opts, exchange.body)

\* position and company of a raw record as the claim maps them
ClaimPosition(raw) ==
    Trim(ToStr(FirstTruthy(raw, <<"position", "title", "jobTitle", "name">>, <<>>)))

ClaimCompany(raw) ==
    Trim(ToStr(FirstTruthy(raw, <<"company", "companyName", "subtitle">>, <<>>)))

ClaimHasIdentity(raw) == ClaimPosition(raw) # <<>> \/ ClaimCompany(raw) # <<>>

\* the postings normalization yields for one raw record
Yielded(raw) ==
    IF variant = "server" THEN Normalizer(<<raw>>) ELSE Normalizer001(<<raw>>)

NormalizeOk ==
    /\ HasCounters
    /\ pc \notin {"fetch", "parse", "normalize"}
    /\ \A i \in 1..Len(rawJobs) :
          IF variant = "server" THEN ~normalizeThrows(rawJobs[i])
          ELSE ~normalizeThrows001(rawJobs[i])

\* C10: normalization yields exactly one posting for a raw record with a
\* non-empty position (first non-empty of position, title, jobTitle, name)
\* or company (first non-empty of company, companyName, subtitle) and none
\* for a record with neither; a record with neither never reaches the
\* filter, and so neither the deduplicator nor the output behind it.
C10_IdentityCheck ==
    NormalizeOk =>
        /\ \A i \in 1..Len(rawJobs) :
              Len(Yielded(rawJobs[i])) = IF ClaimHasIdentity(rawJobs[i]) THEN 1 ELSE 0
        /\ (variant = "server" /\ pc = "filter1") =>
              \A i \in 1..Len(rawJobs) : ClaimHasIdentity(rawJobs[i])


-----------------------------------------------------------------------------
(* Detail enrichment of src/server.js *)

\* the postings whose loop iteration has ended
Settled == 1..Len(pages)

\* C11: detail requests are issued one posting at a time in posting order:
\* at most one request is in flight, it is the request of the posting the
\* loop stands at, and the iteration of every earlier posting has ended
\* (its request completed, failed or timed out) while no later one has begun
C11_Sequential ==
    /\ Cardinality(inFlight) <= 1
    /\ inFlight \subseteq {enrichIdx}
    /\ inFlight # {} => (variant = "server" /\ pc = "enrich" /\ opts.fetchDetails)
    /\ Len(pages) = enrichIdx - 1
    /\ \A i \in 1..Len(normalized) :
          (variant = "server" /\ pc = "enrich")
              => (("companyUrl" \in DOMAIN normalized[i]) <=> i \in Settled)

\* the request of the second posting is in flight after the first one's
\* request has settled
C11_Witness ==
    /\ inFlight = {2}
    /\ pages[1].sent

\* the detail request of posting i failed or timed out
Failed(i) == pages[i].sent /\ ~pages[i].ok

BaseFields ==
    {"position", "company", "location", "date", "salary", "jobUrl",
     "companyLogo"}

\* the enrichment step has returned
EnrichmentReturned ==
    variant = "server" /\ opts.fetchDetails /\ pc = "filter1" /\ pages # <<>>

\* C12: a failed detail fetch is isolated: the enrichment step returns one
\* posting per input posting in the same order, a failed posting keeps its
\* description and its other fields, every other posting gets what its own
\* page gives, and the search ends in a result
C12_FailureIsolated ==
    LET input == Normalizer(rawJobs)
    IN  /\ EnrichmentReturned =>
              /\ Len(normalized) = Len(input)
              /\ Len(pages) = Len(input)
              /\ \A i \in 1..Len(input) :
                    /\ \A f \in BaseFields : normalized[i][f] = input[i][f]
                    /\ Failed(i) => normalized[i].description = input[i].description
                    /\ ~Failed(i) =>
                          normalized[i].description =
                              IF input[i].description # <<>>
                              THEN input[i].description
                              ELSE Trim(pages[i].desc)
        /\ (variant = "server" /\ pc = "done" /\ pages # <<>>)
              => response.kind = "result"

\* one posting with a description lost its detail page, another one got its
\* description from its page, and the search answered
C12_Witness ==
    /\ variant = "server" /\ pc = "done" /\ response.kind = "result"
    /\ Len(pages) = Len(rawJobs)
    /\ \E i \in 1..Len(pages) :
          Failed(i) /\ normalizeJob(rawJobs[i]).description # <<>>
    /\ \E i \in 1..Len(pages) :
          /\ pages[i].ok /\ pages[i].desc # <<>>
          /\ normalizeJob(rawJobs[i]).description = <<>>
    /\ response.returned = 2

-----------------------------------------------------------------------------
(* Result Assembler *)

\* the list the assembler is given, and the posting it returns for a member
FinalList == IF variant = "part000" THEN normalized ELSE deduped

Returned(j) == IF variant = "server" THEN OutputJob(j) ELSE j

\* the fixed inclusive range of the page size
PageSizeTop == IF variant = "server" THEN LimitTopServer ELSE LimitTop

\* C13: the assembler returns exactly the first min(pageSize, n) postings of
\* the n-element final list, in the same order, where pageSize is the
\* requested size clamped into its range; returned never exceeds pageSize
C13_PrefixTruncation ==
    /\ opts.limit \in 1..PageSizeTop
    /\ opts.limitParam \in 1..PageSizeTop => opts.limit = opts.limitParam
    /\ opts.limitParam < 1 => opts.limit = 1
    /\ opts.limitParam > PageSizeTop => opts.limit = PageSizeTop
    /\ (pc = "done" /\ response.kind = "result") =>
          LET n == Len(FinalList)
              k == IF opts.limit < n THEN opts.limit ELSE n
          IN  /\ Len(response.jobs) = k
              /\ response.returned = k
              /\ response.returned <= opts.limit
              /\ \A i \in 1..k : response.jobs[i] = Returned(FinalList[i])

\* a list of three different postings is cut to its first two
C13_Witness ==
    /\ pc = "done" /\ response.kind = "result"
    /\ Len(FinalList) = 3 /\ opts.limit = 2
    /\ response.jobs = <<Returned(FinalList[1]), Returned(FinalList[2])>>
    /\ FinalList[1] # FinalList[2] /\ FinalList[2] # FinalList[3]

-----------------------------------------------------------------------------
(* Location of a returned posting *)

\* a one-record body whose record is located at "Remote, US", has a target
\* title and the company Acme, searched with requireRemote
RemoteUSRequest ==
    /\ variant = "server" /\ opts.requireRemote
    /\ exchange.outcome = "ok" /\ exchange.body.t = "arr"
    /\ Len(exchange.body.items) = 1
    /\ Get(exchange.body.items[1], "title") = Str(HelpDesk)
    /\ Get(exchange.body.items[1], "companyName") = Str(<<"Acme">>)
    /\ Get(exchange.body.items[1], "location") = Str(RemoteUS)

\* C14: the location of every returned posting is normalized (standalone
\* "US" expanded to "United States", commas and whitespace runs collapsed,
\* duplicate tokens removed); a record located at "Remote, US" searched with
\* requireRemote gives one posting whose location contains "United States"
\* and whose isRemote is true
C14_LocationNormalized ==
    (pc = "done" /\ response.kind = "result" /\ variant = "server") =>
        /\ \A i \in 1..Len(response.jobs) :
              response.jobs[i].location =
                  normalizeLocation(response.jobs[i].location)
        /\ RemoteUSRequest =>
              /\ response.returned = 1
              /\ Includes(response.jobs[1].location, UnitedStates)
              /\ response.jobs[1].isRemote

-----------------------------------------------------------------------------
(* Strict pass of src/unnamed/part_000 *)

\* the strict pass has run
Scored == variant = "part000" /\ pc = "fuzzy"

ScoreOf(job) == Score(job, opts.titleFilters)

\* the postings of list whose score is v, in the order of list
WithScore(list, v) ==
    LET is(job) == ScoreOf(job) = v
    IN  SelectSeq(list, is)

\* exactly the postings with a positive score, by non-increasing score,
\* equal scores in upstream order
ExactlyPositiveStable ==
    /\ \A i \in 1..Len(strictList) : ScoreOf(strictList[i]) > 0
    /\ \A i, j \in 1..Len(strictList) :
          i < j => ScoreOf(strictList[i]) >= ScoreOf(strictList[j])
    /\ \A i \in 1..Len(rawJobs) :
          ScoreOf(rawJobs[i]) > 0 =>
              WithScore(strictList, ScoreOf(rawJobs[i]))
                  = WithScore(rawJobs, ScoreOf(rawJobs[i]))

\* what a posting matches: required, broader and remote terms, and the
\* location bonus
Matches(job) ==
    LET t == textFor(job)
    IN  [ required |-> Hits(t, MustKeywords(opts.titleFilters)),
          broader  |-> Hits(t, Range(broaderKeywords)),
          remote   |-> Hits(t, Range(remoteIndicators)),
          bonus    |-> LocationHasRemote(job) ]

OneBroader == [required |-> 0, broader |-> 1, remote |-> 0, bonus |-> FALSE]
OneRemote  == [required |-> 0, broader |-> 0, remote |-> 1, bonus |-> FALSE]

\* a broader match weighs more than a remote match: a posting that matches
\* one broader term and nothing else comes before a posting that matches one
\* remote term and nothing else
BroaderOutranksRemote ==
    \A i, j \in 1..Len(strictList) :
        (Matches(strictList[i]) = OneBroader /\ Matches(strictList[j]) = OneRemote)
            => i < j

\* C15: the strict pass keeps exactly the postings whose weighted score is
\* positive (a required term weighs most, a broader term a medium weight, a
\* remote term a small weight, plus a bonus for a remote location), ordered
\* by non-increasing score, equal scores in upstream order
C15_StrictPass ==
    Scored => (ExactlyPositiveStable /\ BroaderOutranksRemote)

-----------------------------------------------------------------------------
(* Fuzzy fallback of src/unnamed/part_000 *)

\* the handler of part_000 without its fuzzy fallback
Search000NoFuzzy(o, body) ==
    LET jobs   == ToJobs(body)
        strict == StrictPass(jobs, o.titleFilters)
        rem    == IF o.requireRemote THEN EnforceRemote(strict) ELSE strict
    IN  Output000(Slice(rem, o.limit))

\* C16: the fuzzy fallback never contributes a posting: when the strict pass
\* leaves the list empty, every raw posting has score 0 and holds no required
\* and no broader term, the fuzzy pass yields the empty list, and the result
\* is the result of the handler without the fallback
C16_FuzzyNeverContributes ==
    /\ (variant = "part000" /\ pc \in {"fuzzy", "remote"} /\ strictList = <<>>) =>
          \A i \in 1..Len(rawJobs) :
              /\ ScoreOf(rawJobs[i]) = 0
              /\ Matches(rawJobs[i]).required = 0
              /\ Matches(rawJobs[i]).broader = 0
    /\ (variant = "part000" /\ pc = "remote" /\ strictList = <<>>) =>
          normalized = <<>>
    /\ (variant = "part000" /\ pc = "done" /\ response.kind = "result") =>
          response = Search000NoFuzzy(opts, exchange.body)

\* the fallback ran over two postings the strict pass had dropped, and the
\* answer is empty
C16_Witness ==
    /\ variant = "part000" /\ pc = "done" /\ response.kind = "result"
    /\ strictList = <<>> /\ Len(rawJobs) = 2 /\ rawJobs[1] # rawJobs[2]
    /\ response.returned = 0

-----------------------------------------------------------------------------
(* Derived flags of src/server.js *)

\* C17: the derived flags agree with the requested constraints: with
\* requireRemote every returned posting has isRemote, with requireContract
\* every returned posting has isContract
C17_FlagsAgree ==
    (variant = "server" /\ pc = "done" /\ response.kind = "result") =>
        /\ opts.requireRemote =>
              \A i \in 1..Len(response.jobs) : response.jobs[i].isRemote
        /\ opts.requireContract =>
              \A i \in 1..Len(response.jobs) : response.jobs[i].isContract

\* both constraints were asked for and a posting came through both filters
\* with a relative url, which the answer carries rewritten to absolute
C17_Witness ==
    /\ variant = "server" /\ pc = "done" /\ response.kind = "result"
    /\ opts.requireRemote /\ opts.requireContract
    /\ response.returned >= 1
    /\ StartsWithSlash(normalized[1].jobUrl)
    /\ response.jobs[1].jobUrl = <<Host>> \o normalized[1].jobUrl
    /\ response.jobs[1].isRemote /\ response.jobs[1].isContract

=============================================================================
